---- MODULE Spec2Model ----
(***************************************************************************)
(* Model of the foamcutter path pipeline: the geometry helpers             *)
(* (helpers.py), the union of closed paths (pathsunion.py), the tool angle *)
(* tracker and the cutting and engraving tool path generators              *)
(* (toolpaths.py) and the cutting and engraving g-code emitters (gcode.py).*)
(*                                                                         *)
(* Points are pairs of integers on a lattice whose unit is the unit of     *)
(* close_distance.  Squared distances are exact; the comparison            *)
(* distance(a, b) > c with c >= 0 is evaluated on the squares.             *)
(* Python indices are 0-based; the index values kept in the state are the  *)
(* 0-based values of the code, and At() converts when a sequence is read.  *)
(* An optional value is <<>> for None and <<v>> for the value v.           *)
(***************************************************************************)
EXTENDS Integers, Sequences, FiniteSets, TLC

VARIABLES
    input_paths,        \* PathsJoiner: the list of contours handed to the constructor
    close_distance,     \* the close_distance argument of the pipeline
    pc,                 \* position of the PathsJoiner caller
    path,               \* PathsJoiner.path (the working path)
    remaining_paths,    \* PathsJoiner.remaining_paths (the pending pool)
    nearest_path_info,  \* unite(): None or (path, idx1, idx2)
    path_index,         \* extract_nearest_path(): pool index of the popped path
    input_path,         \* CuttingToolPathsGenerator.input_path
    tool_path,          \* CuttingToolPathsGenerator.tool_path, optional
    cpc,                \* position of the CuttingToolPathsGenerator caller
    arg_path,           \* argument of a direct call: a path
    arg_close,          \* argument of a direct call: close_distance
    arg_index,          \* argument of a direct call: an index
    ret,                \* result of a direct call of a helper
    kpc,                \* which helper was called directly
    current_turn,       \* ToolAngleGenerator.current_turn
    prev_angle,         \* ToolAngleGenerator.prev_angle, optional
    prev_dir,           \* ToolAngleGenerator.prev_dir, optional
    angle_ret,          \* the value returned by the last next_angle call, optional
    last_cross,         \* sign of the cross product of the last next_angle call, optional
    run,                \* the turns of the calls so far: "new", "ccw", "cw" or "mixed"
    n_calls,            \* number of next_angle calls so far
    apc,                \* position of the ToolAngleGenerator caller
    eng_input_paths,    \* EngravingToolPathsGenerator.input_paths
    tool_z,             \* EngravingToolPathsGenerator.tool_z
    min_distance,       \* EngravingToolPathsGenerator.min_distance
    discretization_step, \* EngravingToolPathsGenerator.discretization_step
    tool_paths,         \* EngravingToolPathsGenerator.tool_paths, optional
    eng_results,        \* generate(): the tool paths of the list under construction
    eng_index,          \* generate(): index of the next input path
    eng_path,           \* generate_single_path(): the argument path
    simplified_path,    \* generate_single_path(): simplified_path
    discretized_path,   \* generate_single_path(): discretized_path
    points_and_directions, \* generate_single_path(): points_and_directions
    epc,                \* position of the EngravingToolPathsGenerator caller
    eg_tool_paths,      \* EngravingGCodeGenerator.tool_paths
    mm_per_degree,      \* EngravingGCodeGenerator.mm_per_degree
    safe_z,             \* EngravingGCodeGenerator.safe_z
    small_distance,     \* EngravingGCodeGenerator.small_distance
    small_angle,        \* EngravingGCodeGenerator.small_angle
    eg_gcode_str,       \* EngravingGCodeGenerator.gcode_str, optional
    eg_path_index,      \* generate(): index of the tool path being emitted
    eg_point_index,     \* generate_single_path(): index of the next point
    egpc,               \* position of the EngravingGCodeGenerator caller
    arg_temperature,    \* the temperature argument of the CuttingGCodeGenerator constructor
    cg_tool_path,       \* CuttingGCodeGenerator.tool_path, optional
    speed,              \* CuttingGCodeGenerator.speed
    temperature,        \* CuttingGCodeGenerator.temperature
    cg_gcode_str,       \* CuttingGCodeGenerator.gcode_str, optional
    cgpc                \* position of the CuttingGCodeGenerator caller

vars == <<input_paths, close_distance, pc, path, remaining_paths, nearest_path_info,
          path_index, input_path, tool_path, cpc, arg_path, arg_close, arg_index,
          ret, kpc, current_turn, prev_angle, prev_dir, angle_ret, last_cross, run,
          n_calls, apc, eng_input_paths, tool_z, min_distance, discretization_step,
          tool_paths, eng_results, eng_index, eng_path, simplified_path,
          discretized_path, points_and_directions, epc, eg_tool_paths, mm_per_degree,
          safe_z, small_distance, small_angle, eg_gcode_str, eg_path_index,
          eg_point_index, egpc, arg_temperature, cg_tool_path, speed, temperature,
          cg_gcode_str, cgpc>>

joinerVars == <<input_paths, close_distance, pc, path, remaining_paths,
                nearest_path_info, path_index>>
cuttingVars == <<input_path, tool_path, cpc>>
kernelVars == <<arg_path, arg_close, arg_index, ret, kpc>>
angleVars == <<current_turn, prev_angle, prev_dir, angle_ret, last_cross, run, n_calls, apc>>
engravingVars == <<eng_input_paths, tool_z, min_distance, discretization_step,
                   tool_paths, eng_results, eng_index, eng_path, simplified_path,
                   discretized_path, points_and_directions, epc>>
egcodeVars == <<eg_tool_paths, mm_per_degree, safe_z, small_distance, small_angle,
                eg_gcode_str, eg_path_index, eg_point_index, egpc>>
cgcodeVars == <<arg_temperature, cg_tool_path, speed, temperature, cg_gcode_str, cgpc>>
\* the state of the engraving classes and of the emitters
laterVars == <<angleVars, engravingVars, egcodeVars, cgcodeVars>>

(***************************************************************************)
(* Bounds of the model                                                     *)
(***************************************************************************)
MaxPoints == 4      \* size of an input: the points of a path, the cost of a contour list
MaxPaths == 3       \* number of contours of a contour list
MaxClose == 1       \* close_distance ranges over 0..MaxClose
MaxSquares == 3     \* number of unit squares of a row of squares
EighthSteps == 2    \* the directions of the model are 8 * EighthSteps to a full turn
MaxCalls == 5       \* number of next_angle calls on one ToolAngleGenerator
MaxStepDiv == 2     \* the finite discretization steps are Unit / k, k in 1..MaxStepDiv
MaxToolPoints == 3  \* size of a list of tool paths handed to the engraving emitter

\* the corners of the unit cell of the lattice
Points == {<<0, 0>>, <<1, 0>>, <<1, 1>>, <<0, 1>>}
CloseDistances == 0..MaxClose

None == <<>>
Some(v) == <<v>>

SeqsUpTo(S, n) == UNION {[1..k -> S] : k \in 0..n}

Paths == SeqsUpTo(Points, MaxPoints)

\* what a contour takes of the size of a contour list: its points, 1 when it has none
Cost(c) == IF c = <<>> THEN 1 ELSE Len(c)

RECURSIVE ListsWith(_, _)
\* the lists of exactly k contours whose costs add up to at most budget
ListsWith(k, budget) ==
    IF k = 0 THEN {<<>>}
    ELSE UNION {{<<c>> \o rest : rest \in ListsWith(k - 1, budget - Cost(c))} :
                c \in {q \in SeqsUpTo(Points, budget) : Cost(q) <= budget}}

ContourLists == UNION {ListsWith(k, MaxPoints) : k \in 0..MaxPaths}

\* the closed unit square with lower left corner (x, y), counter-clockwise
UnitSquare(x, y) ==
    <<<<x, y>>, <<x + 1, y>>, <<x + 1, y + 1>>, <<x, y + 1>>, <<x, y>>>>

\* x of the i-th square of a row (i = 0, 1, ...): the gaps are 2, 3, 4, ...
SquareOrigin(i) == (i * (i + 5)) \div 2

\* K unit squares along the x axis at increasing distance
SquareLayout(k) == [i \in 1..k |-> UnitSquare(SquareOrigin(i - 1), 0)]

\* the lower left corners of the squares: two rows, the gap between the rows is 1
SquareCorners == {SquareOrigin(i) : i \in 0..(MaxSquares - 1)} \X {0, 2}

\* up to MaxPaths disjoint unit squares, in any order
SquareLists ==
    {[i \in DOMAIN s |-> UnitSquare(s[i][1], s[i][2])] :
        s \in {t \in SeqsUpTo(SquareCorners, MaxPaths) :
                   t # <<>> /\ \A i, j \in DOMAIN t : i # j => t[i] # t[j]}}

(***************************************************************************)
(* helpers.py                                                              *)
(***************************************************************************)
At(seq, i) == seq[i + 1]                    \* seq[i]
From(seq, i) == SubSeq(seq, i + 1, Len(seq)) \* seq[i:], 0 <= i
Upto(seq, j) ==                              \* seq[:j], 0 <= j
    SubSeq(seq, 1, IF j < Len(seq) THEN j ELSE Len(seq))
Slice(seq, i, j) ==                          \* seq[i:j], 0 <= i, 0 <= j
    SubSeq(seq, i + 1, IF j < Len(seq) THEN j ELSE Len(seq))

squared_length(vector) == vector[1] * vector[1] + vector[2] * vector[2]

squared_distance(point1, point2) ==
    squared_length(<<point1[1] - point2[1], point1[2] - point2[2]>>)

\* distance(point1, point2) > c, for c >= 0
distance_exceeds(point1, point2, c) == squared_distance(point1, point2) > c * c

verify_path_closed_ge(p, c) ==
    IF p # <<>> /\ Len(p) > 1 /\ squared_distance(At(p, 0), At(p, Len(p) - 1)) >= c * c
    THEN "InvalidCuttingPath" ELSE "ok"

verify_path_closed_len2(p, c) ==
    IF p # <<>> /\ Len(p) > 2 /\ distance_exceeds(At(p, 0), At(p, Len(p) - 1), c)
    THEN "InvalidCuttingPath" ELSE "ok"

\* "InvalidCuttingPath" when the call raises, "ok" when it returns
verify_path_closed(p, c) ==
    IF p # <<>> /\ Len(p) > 1 /\ distance_exceeds(At(p, 0), At(p, Len(p) - 1), c)
    THEN "InvalidCuttingPath" ELSE "ok"

RECURSIVE point_path_scan_stale(_, _, _, _, _)
point_path_scan_stale(point, p, idx, nearest_distance, nearest_index) ==
    IF idx >= Len(p) THEN <<nearest_distance, nearest_index>>
    ELSE LET dist == squared_distance(point, At(p, idx))
         IN IF dist < nearest_distance
            THEN point_path_scan_stale(point, p, idx + 1, nearest_distance, idx)
            ELSE point_path_scan_stale(point, p, idx + 1, nearest_distance, nearest_index)

RECURSIVE point_path_scan(_, _, _, _, _)
\* the loop of point_path_squared_distance, about to look at path[idx]
point_path_scan(point, p, idx, nearest_distance, nearest_index) ==
    IF idx >= Len(p) THEN <<nearest_distance, nearest_index>>
    ELSE LET dist == squared_distance(point, At(p, idx))
         IN IF dist < nearest_distance
            THEN point_path_scan(point, p, idx + 1, dist, idx)
            ELSE point_path_scan(point, p, idx + 1, nearest_distance, nearest_index)

RECURSIVE point_path_scan_le(_, _, _, _, _)
point_path_scan_le(point, p, idx, nearest_distance, nearest_index) ==
    IF idx >= Len(p) THEN <<nearest_distance, nearest_index>>
    ELSE LET dist == squared_distance(point, At(p, idx))
         IN IF dist <= nearest_distance
            THEN point_path_scan_le(point, p, idx + 1, dist, idx)
            ELSE point_path_scan_le(point, p, idx + 1, nearest_distance, nearest_index)

point_path_squared_distance_le(point, p) ==
    point_path_scan_le(point, p, 1, squared_distance(point, At(p, 0)), 0)

\* (squared distance, index); the path must not be empty (IndexError otherwise)
point_path_squared_distance(point, p) ==
    point_path_scan(point, p, 1, squared_distance(point, At(p, 0)), 0)

rotate_closed_path_keepfirst(p, new_start) ==
    IF p = <<>> THEN <<>>
    ELSE IF new_start = 0 \/ new_start >= Len(p) - 1 THEN p
    ELSE From(p, new_start) \o Slice(p, 0, new_start + 1)

rotate_closed_path(p, new_start) ==
    IF p = <<>> THEN <<>>
    ELSE IF new_start = 0 \/ new_start >= Len(p) - 1 THEN p
    ELSE From(p, new_start) \o Slice(p, 1, new_start + 1)

(***************************************************************************)
(* pathsunion.py                                                           *)
(***************************************************************************)
RECURSIVE compute_paths_scan(_, _, _, _, _, _)
\* the loop of compute_paths_distance, about to look at path1[idx1]
compute_paths_scan(path1, path2, idx1, paths_distance, index_path1, index_path2) ==
    IF idx1 >= Len(path1) THEN <<paths_distance, index_path1, index_path2>>
    ELSE LET r == point_path_squared_distance(At(path1, idx1), path2)
         IN IF r[1] < paths_distance
            THEN compute_paths_scan(path1, path2, idx1 + 1, r[1], idx1, r[2])
            ELSE compute_paths_scan(path1, path2, idx1 + 1,
                                    paths_distance, index_path1, index_path2)

\* (distance, index_point_path1, index_point_path2); no path may be empty
compute_paths_distance(path1, path2) ==
    LET r == point_path_squared_distance(At(path1, 0), path2)
    IN compute_paths_scan(path1, path2, 1, r[1], 0, r[2])

RECURSIVE extract_nearest_scan(_, _, _, _, _, _, _)
\* the loop of extract_nearest_path, about to look at remaining[path_idx]
extract_nearest_scan(working, remaining, path_idx, path_distance, index_path, index_other_path, best) ==
    IF path_idx >= Len(remaining)
    THEN <<best, index_path, index_other_path>>
    ELSE LET r == compute_paths_distance(working, At(remaining, path_idx))
         IN IF r[1] < path_distance
            THEN extract_nearest_scan(working, remaining, path_idx + 1,
                                      r[1], r[2], r[3], path_idx)
            ELSE extract_nearest_scan(working, remaining, path_idx + 1,
                                      path_distance, index_path, index_other_path, best)

\* (path_index, index_path, index_other_path) for a non-empty pool
extract_nearest_choice(working, remaining) ==
    LET r == compute_paths_distance(working, At(remaining, 0))
    IN extract_nearest_scan(working, remaining, 1, r[1], r[2], r[3], 0)

\* extract_nearest_path raises IndexError: path1[0] or path[0] of an empty list
extract_raises(working, remaining) ==
    working = <<>> \/ \E k \in 1..Len(remaining) : remaining[k] = <<>>

\* list.pop(i)
Pop(seq, i) == Upto(seq, i) \o From(seq, i + 1)

join_two_paths_nodup(working, path_to_add, index_path, index_path_to_add) ==
    Upto(working, index_path + 1)
        \o rotate_closed_path(path_to_add, index_path_to_add)
        \o From(working, index_path + 1)

join_two_paths_before(working, path_to_add, index_path, index_path_to_add) ==
    Upto(working, index_path)
        \o rotate_closed_path(path_to_add, index_path_to_add)
        \o From(working, index_path)

join_two_paths_norotate(working, path_to_add, index_path, index_path_to_add) ==
    Upto(working, index_path + 1) \o path_to_add \o From(working, index_path)

\* the new value of self.path
join_two_paths(working, path_to_add, index_path, index_path_to_add) ==
    Upto(working, index_path + 1)
        \o rotate_closed_path(path_to_add, index_path_to_add)
        \o From(working, index_path)

PathsJoinerInit_first ==
    /\ pc = "start"
    /\ IF input_paths # <<>>
          /\ verify_path_closed(input_paths[1], close_distance) = "InvalidCuttingPath"
       THEN /\ pc' = "InvalidCuttingPath"
            /\ UNCHANGED <<remaining_paths, path>>
       ELSE /\ pc' = "constructed"
            /\ remaining_paths' = <<>>
            /\ path' = <<>>
    /\ UNCHANGED <<input_paths, close_distance, nearest_path_info, path_index>>
    /\ UNCHANGED <<cuttingVars, kernelVars, laterVars>>

\* PathsJoiner(input_paths, close_distance)
PathsJoinerInit ==
    /\ pc = "start"
    /\ IF \E k \in 1..Len(input_paths) :
              verify_path_closed(input_paths[k], close_distance) = "InvalidCuttingPath"
       THEN /\ pc' = "InvalidCuttingPath"
            /\ UNCHANGED <<remaining_paths, path>>
       ELSE /\ pc' = "constructed"
            /\ remaining_paths' = <<>>
            /\ path' = <<>>
    /\ UNCHANGED <<input_paths, close_distance, nearest_path_info, path_index>>
    /\ UNCHANGED <<cuttingVars, kernelVars, laterVars>>

Unite_noguard ==
    /\ pc = "constructed"
    /\ IF input_paths = <<>>
       THEN /\ pc' = "IndexError"
            /\ UNCHANGED <<path, remaining_paths>>
       ELSE /\ path' = At(input_paths, 0)
            /\ remaining_paths' = From(input_paths, 1)
            /\ pc' = "extract"
    /\ UNCHANGED <<input_paths, close_distance, nearest_path_info, path_index>>
    /\ UNCHANGED <<cuttingVars, kernelVars, laterVars>>

\* unite(), up to the first call of extract_nearest_path
Unite ==
    /\ pc = "constructed"
    /\ IF input_paths = <<>>
       THEN /\ pc' = "united"
            /\ UNCHANGED <<path, remaining_paths>>
       ELSE /\ path' = At(input_paths, 0)
            /\ remaining_paths' = From(input_paths, 1)
            /\ pc' = "extract"
    /\ UNCHANGED <<input_paths, close_distance, nearest_path_info, path_index>>
    /\ UNCHANGED <<cuttingVars, kernelVars, laterVars>>

\* nearest_path_info = self.extract_nearest_path()
ExtractNearestPath ==
    /\ pc = "extract"
    /\ IF remaining_paths = <<>>
       THEN /\ nearest_path_info' = None
            /\ pc' = "united"
            /\ UNCHANGED <<remaining_paths, path_index>>
       ELSE IF extract_raises(path, remaining_paths)
       THEN /\ pc' = "IndexError"
            /\ UNCHANGED <<remaining_paths, nearest_path_info, path_index>>
       ELSE LET c == extract_nearest_choice(path, remaining_paths)
            IN /\ path_index' = c[1]
               /\ remaining_paths' = Pop(remaining_paths, c[1])
               /\ nearest_path_info' = <<At(remaining_paths, c[1]), c[2], c[3]>>
               /\ pc' = "join"
    /\ UNCHANGED <<input_paths, close_distance, path>>
    /\ UNCHANGED <<cuttingVars, kernelVars, laterVars>>

\* self.join_two_paths(path, idx1, idx2)
JoinTwoPaths ==
    /\ pc = "join"
    /\ path' = join_two_paths(path, nearest_path_info[1], nearest_path_info[2],
                              nearest_path_info[3])
    /\ pc' = "extract"
    /\ UNCHANGED <<input_paths, close_distance, remaining_paths, nearest_path_info,
                   path_index>>
    /\ UNCHANGED <<cuttingVars, kernelVars, laterVars>>

\* union_path()
union_path == path

(***************************************************************************)
(* toolpaths.py: CuttingToolPathsGenerator                                 *)
(***************************************************************************)
\* CuttingToolPathsGenerator(p, c)
CuttingToolPathsGeneratorInit(p, c) ==
    /\ cpc = "none"
    /\ IF verify_path_closed(p, c) = "InvalidCuttingPath"
       THEN /\ cpc' = "InvalidCuttingPath"
            /\ UNCHANGED <<input_path, tool_path>>
       ELSE /\ cpc' = "constructed"
            /\ input_path' = p
            /\ tool_path' = None

\* the tool path computed by generate(), optional
generate_tool_path(p) ==
    IF p = <<>> THEN None
    ELSE Some(rotate_closed_path(p, point_path_squared_distance(<<0, 0>>, p)[2]))

\* foamcutterplugin.py: CuttingToolPathsGenerator(paths_joiner.union_path(), CLOSE_DISTANCE)
CuttingFromUnion ==
    /\ pc = "united"
    /\ CuttingToolPathsGeneratorInit(union_path, close_distance)
    /\ UNCHANGED <<joinerVars, kernelVars, laterVars>>

\* CuttingToolPathsGenerator(arg_path, arg_close)
CuttingFromPath ==
    /\ kpc = "cutting"
    /\ CuttingToolPathsGeneratorInit(arg_path, arg_close)
    /\ UNCHANGED <<joinerVars, kernelVars, laterVars>>

\* generate()
CuttingGenerate ==
    /\ cpc = "constructed"
    /\ tool_path' = generate_tool_path(input_path)
    /\ cpc' = "generated"
    /\ UNCHANGED <<input_path, joinerVars, kernelVars, laterVars>>

(***************************************************************************)
(* toolpaths.py: ToolAngleGenerator                                        *)
(*                                                                         *)
(* A direction is the zero vector or a vector at one of DirSteps equally   *)
(* spaced angles; atan2 and the sign of a cross product do not depend on   *)
(* the length of a vector.  An angle is an integer number of steps of      *)
(* 2 * pi / DirSteps, so that pi is DirSteps / 2 steps; the arithmetic on  *)
(* angles is exact.                                                        *)
(***************************************************************************)
DirSteps == 8 * EighthSteps
pi == DirSteps \div 2
half_pi == DirSteps \div 4

\* the vector (0, 0)
ZeroVector == -1
Directions == (0..(DirSteps - 1)) \cup {ZeroVector}

\* math.atan2(direction[1], direction[0]): in (-pi, pi], 0 for the zero vector
atan2(direction) ==
    IF direction = ZeroVector THEN 0
    ELSE IF direction <= pi THEN direction ELSE direction - DirSteps

\* math.fmod(a, b), b > 0: the result has the sign of a
fmod(a, b) == IF a >= 0 THEN a % b ELSE 0 - ((0 - a) % b)

normalize_signed(angle) == fmod(angle, pi)

normalize(angle) ==
    LET a == fmod(angle, pi)
    IN IF a < 0 THEN a + pi ELSE a

compute_tool_angle_for_direction(direction) == normalize(atan2(direction) + half_pi)

\* sign of prev[0] * direction[1] - prev[1] * direction[0]
cross_sign(prev, direction) ==
    IF prev = ZeroVector \/ direction = ZeroVector THEN 0
    ELSE LET t == (direction - prev) % DirSteps
         IN IF t = 0 \/ t = pi THEN 0 ELSE IF t < pi THEN 1 ELSE 0 - 1

\* ToolAngleGenerator()
ToolAngleGenerator == [current_turn |-> 0, prev_angle |-> None, prev_dir |-> None]

compute_next_tool_angle_nowrap(t, direction) ==
    LET angle == compute_tool_angle_for_direction(direction)
        cross == cross_sign(t.prev_dir[1], direction)
    IN IF cross > 0
       THEN [angle |-> angle, current_turn |-> t.current_turn]
       ELSE IF cross < 0
       THEN [angle |-> angle,
             current_turn |-> IF angle > t.prev_angle[1] THEN t.current_turn - 1
                              ELSE t.current_turn]
       ELSE [angle |-> t.prev_angle[1], current_turn |-> t.current_turn]

compute_next_tool_angle_fresh(t, direction) ==
    LET angle == compute_tool_angle_for_direction(direction)
        cross == cross_sign(t.prev_dir[1], direction)
    IN IF cross > 0
       THEN [angle |-> angle,
             current_turn |-> IF angle < t.prev_angle[1] THEN t.current_turn + 1
                              ELSE t.current_turn]
       ELSE IF cross < 0
       THEN [angle |-> angle,
             current_turn |-> IF angle > t.prev_angle[1] THEN t.current_turn - 1
                              ELSE t.current_turn]
       ELSE [angle |-> angle, current_turn |-> t.current_turn]

compute_next_tool_angle_swapped(t, direction) ==
    LET angle == compute_tool_angle_for_direction(direction)
        cross == cross_sign(t.prev_dir[1], direction)
    IN IF cross > 0
       THEN [angle |-> angle,
             current_turn |-> IF angle > t.prev_angle[1] THEN t.current_turn + 1
                              ELSE t.current_turn]
       ELSE IF cross < 0
       THEN [angle |-> angle,
             current_turn |-> IF angle < t.prev_angle[1] THEN t.current_turn - 1
                              ELSE t.current_turn]
       ELSE [angle |-> t.prev_angle[1], current_turn |-> t.current_turn]

\* compute_next_tool_angle(direction) on the tracker t: the angle and the new current_turn
compute_next_tool_angle(t, direction) ==
    LET angle == compute_tool_angle_for_direction(direction)
        cross == cross_sign(t.prev_dir[1], direction)
    IN IF cross > 0
       THEN [angle |-> angle,
             current_turn |-> IF angle < t.prev_angle[1] THEN t.current_turn + 1
                              ELSE t.current_turn]
       ELSE IF cross < 0
       THEN [angle |-> angle,
             current_turn |-> IF angle > t.prev_angle[1] THEN t.current_turn - 1
                              ELSE t.current_turn]
       ELSE [angle |-> t.prev_angle[1], current_turn |-> t.current_turn]

\* next_angle(direction) on the tracker t: the new tracker and the returned angle
next_angle(t, direction) ==
    LET r == IF t.prev_dir = None
             THEN [angle |-> compute_tool_angle_for_direction(direction),
                   current_turn |-> t.current_turn]
             ELSE compute_next_tool_angle(t, direction)
    IN [tracker |-> [current_turn |-> r.current_turn,
                     prev_angle |-> Some(r.angle),
                     prev_dir |-> Some(direction)],
        result |-> r.angle + pi * r.current_turn]

\* the turns of a sequence of calls after one more call whose cross product has sign c
next_run(c) ==
    IF c = 0 THEN "mixed"
    ELSE IF c > 0 THEN (IF run \in {"new", "ccw"} THEN "ccw" ELSE "mixed")
    ELSE (IF run \in {"new", "cw"} THEN "cw" ELSE "mixed")

\* generator = ToolAngleGenerator()
NewToolAngleGenerator ==
    /\ apc = "start"
    /\ current_turn' = ToolAngleGenerator.current_turn
    /\ prev_angle' = ToolAngleGenerator.prev_angle
    /\ prev_dir' = ToolAngleGenerator.prev_dir
    /\ apc' = "tracking"
    /\ UNCHANGED <<angle_ret, last_cross, run, n_calls>>
    /\ UNCHANGED <<joinerVars, cuttingVars, kernelVars, engravingVars, egcodeVars, cgcodeVars>>

\* generator.next_angle(direction)
NextAngle ==
    /\ apc = "tracking"
    /\ n_calls < MaxCalls
    /\ \E direction \in Directions :
          LET r == next_angle([current_turn |-> current_turn, prev_angle |-> prev_angle,
                               prev_dir |-> prev_dir], direction)
          IN /\ current_turn' = r.tracker.current_turn
             /\ prev_angle' = r.tracker.prev_angle
             /\ prev_dir' = r.tracker.prev_dir
             /\ angle_ret' = Some(r.result)
             /\ last_cross' = IF prev_dir = None THEN None
                              ELSE Some(cross_sign(prev_dir[1], direction))
             /\ run' = IF prev_dir = None THEN run
                       ELSE next_run(cross_sign(prev_dir[1], direction))
    /\ n_calls' = n_calls + 1
    /\ UNCHANGED apc
    /\ UNCHANGED <<joinerVars, cuttingVars, kernelVars, engravingVars, egcodeVars, cgcodeVars>>

(***************************************************************************)
(* toolpaths.py: discretize_path, PointAndDirection and                    *)
(* EngravingToolPathsGenerator                                             *)
(*                                                                         *)
(* The input points of the engraving generator are the corners of a cell   *)
(* of side Unit.  Unit is a multiple of every number of steps that         *)
(* discretize_path can compute in the model, so that the points it inserts *)
(* are lattice points and the arithmetic is exact.  The segments between   *)
(* corners of the cell run along the axes or the diagonals, and their      *)
(* directions are multiples of an eighth of a turn.                        *)
(***************************************************************************)
RECURSIVE Fact(_)
Fact(n) == IF n <= 1 THEN 1 ELSE n * Fact(n - 1)

Unit == Fact(2 * MaxStepDiv)

\* float('inf'): above every distance of the model
inf == 4 * Unit

scale_path(q) == [i \in DOMAIN q |-> <<q[i][1] * Unit, q[i][2] * Unit>>]

\* lists of at most MaxPaths - 1 paths between the corners of the cell
EngravingLists ==
    {[i \in DOMAIN l |-> scale_path(l[i])] :
        l \in UNION {ListsWith(k, MaxPoints + 1 - k) : k \in 0..(MaxPaths - 1)}}

MinDistances == {0, Unit \div 2, Unit}
DiscretizationSteps == {Unit \div k : k \in 1..MaxStepDiv} \cup {inf}
ToolHeights == {Unit}

RECURSIVE num_steps_floor(_, _, _)
num_steps_floor(squared_dist, step, n) ==
    IF n * n * step * step > squared_dist THEN n
    ELSE num_steps_floor(squared_dist, step, n + 1)

RECURSIVE num_steps(_, _, _)
\* int(math.ceil(dist / step)): the least n, from n on, with n * step >= dist
num_steps(squared_dist, step, n) ==
    IF n * n * step * step >= squared_dist THEN n
    ELSE num_steps(squared_dist, step, n + 1)

\* point_for_step(start, versor, step_length, step) with versor = vector / dist and
\* step_length = dist / steps
point_for_step(start, vector, steps, step) ==
    <<start[1] + (vector[1] * step) \div steps, start[2] + (vector[2] * step) \div steps>>

RECURSIVE discretize_scan(_, _, _, _, _)
\* the loop of discretize_path from path[i] on
discretize_scan(a_path, i, prev_point, discretized, step) ==
    IF i >= Len(a_path) THEN discretized
    ELSE LET point == At(a_path, i)
             vector == <<point[1] - prev_point[1], point[2] - prev_point[2]>>
             steps == num_steps(squared_length(vector), step, 1)
             inserted == IF distance_exceeds(prev_point, point, step)
                         THEN [j \in 1..(steps - 1) |->
                                  point_for_step(prev_point, vector, steps, j)]
                         ELSE <<>>
         IN discretize_scan(a_path, i + 1, point, discretized \o inserted \o <<point>>, step)

discretize_path(a_path, step) ==
    IF step = inf \/ Len(a_path) < 2 THEN a_path
    ELSE discretize_scan(a_path, 1, At(a_path, 0), <<At(a_path, 0)>>, step)

\* the direction of the unit vector along a vector of the cell
direction_of(vector) ==
    EighthSteps *
        (IF vector[2] = 0 THEN (IF vector[1] > 0 THEN 0 ELSE 4)
         ELSE IF vector[1] = 0 THEN (IF vector[2] > 0 THEN 2 ELSE 6)
         ELSE IF vector[2] > 0 THEN (IF vector[1] > 0 THEN 1 ELSE 3)
         ELSE (IF vector[1] < 0 THEN 5 ELSE 7))

\* PointAndDirection(point, next_point, min_distance) raises ZeroDivisionError
point_and_direction_raises(point, next_point, min) ==
    LET vector == <<next_point[1] - point[1], next_point[2] - point[2]>>
    IN ~(squared_length(vector) < min * min) /\ squared_length(vector) = 0

PointAndDirection(point, next_point, min) ==
    LET vector == <<next_point[1] - point[1], next_point[2] - point[2]>>
    IN [point |-> point,
        direction |-> IF squared_length(vector) < min * min THEN ZeroVector
                      ELSE direction_of(vector)]

RECURSIVE simplified_scan_ge(_, _, _, _, _)
simplified_scan_ge(a_path, i, prev_point, simplified, min) ==
    IF i >= Len(a_path) THEN Append(simplified, prev_point)
    ELSE IF squared_distance(At(a_path, i), prev_point) >= min * min
    THEN simplified_scan_ge(a_path, i + 1, At(a_path, i), Append(simplified, prev_point), min)
    ELSE simplified_scan_ge(a_path, i + 1, prev_point, simplified, min)

RECURSIVE simplified_scan(_, _, _, _, _)
\* the loop of generate_simplified_path from path[i] on
simplified_scan(a_path, i, prev_point, simplified, min) ==
    IF i >= Len(a_path) THEN Append(simplified, prev_point)
    ELSE IF distance_exceeds(At(a_path, i), prev_point, min)
    THEN simplified_scan(a_path, i + 1, At(a_path, i), Append(simplified, prev_point), min)
    ELSE simplified_scan(a_path, i + 1, prev_point, simplified, min)

generate_simplified_path(a_path, min) ==
    IF a_path = <<>> THEN <<>> ELSE simplified_scan(a_path, 1, At(a_path, 0), <<>>, min)

\* the subsequent point handed to PointAndDirection for path[i]
next_point_of(a_path, i) == IF i + 1 < Len(a_path) THEN At(a_path, i + 1) ELSE At(a_path, i)

generate_directions_raises(a_path, min) ==
    \E i \in 0..(Len(a_path) - 1) :
        point_and_direction_raises(At(a_path, i), next_point_of(a_path, i), min)

generate_directions(a_path, min) ==
    [k \in 1..Len(a_path) |-> PointAndDirection(a_path[k], next_point_of(a_path, k - 1), min)]

create_tool_point(point_and_direction, z, angle) ==
    <<point_and_direction.point[1], point_and_direction.point[2], z, angle>>

RECURSIVE tool_path_scan(_, _, _, _, _)
\* the loop of generate_single_path over points_and_directions[:-1], from index i on
tool_path_scan(pds, i, tracker, acc, z) ==
    IF i >= Len(pds) - 1 THEN acc
    ELSE LET r == next_angle(tracker, At(pds, i).direction)
         IN tool_path_scan(pds, i + 1, r.tracker,
                           Append(acc, create_tool_point(At(pds, i), z, r.result)), z)

\* the tool path generate_single_path builds from points_and_directions
single_tool_path(pds, z) ==
    IF pds = <<>> THEN <<>>
    ELSE IF Len(pds) = 1 THEN <<create_tool_point(At(pds, 0), z, 0)>>
    ELSE LET acc == tool_path_scan(pds, 0, ToolAngleGenerator, <<>>, z)
         IN Append(acc, create_tool_point(At(pds, Len(pds) - 1), z, acc[Len(acc)][4]))

\* EngravingToolPathsGenerator(eng_input_paths, tool_z, min_distance, discretization_step)
EngravingToolPathsGeneratorInit ==
    /\ epc = "start"
    /\ tool_paths' = Some(<<>>)
    /\ epc' = "constructed"
    /\ UNCHANGED <<eng_input_paths, tool_z, min_distance, discretization_step, eng_results,
                   eng_index, eng_path, simplified_path, discretized_path,
                   points_and_directions>>
    /\ UNCHANGED <<joinerVars, cuttingVars, kernelVars, angleVars, egcodeVars, cgcodeVars>>

\* generate(): the list comprehension starts
EngravingGenerate ==
    /\ epc = "constructed"
    /\ eng_results' = <<>>
    /\ eng_index' = 0
    /\ epc' = "generating"
    /\ UNCHANGED <<eng_input_paths, tool_z, min_distance, discretization_step, tool_paths,
                   eng_path, simplified_path, discretized_path, points_and_directions>>
    /\ UNCHANGED <<joinerVars, cuttingVars, kernelVars, angleVars, egcodeVars, cgcodeVars>>

\* generate(): self.generate_single_path(p) for the next p of input_paths
EngravingGenerateSinglePath ==
    /\ epc = "generating"
    /\ eng_index < Len(eng_input_paths)
    /\ LET p == At(eng_input_paths, eng_index)
           sp == generate_simplified_path(p, min_distance)
           dp == discretize_path(sp, discretization_step)
       IN /\ eng_path' = p
          /\ simplified_path' = sp
          /\ discretized_path' = dp
          /\ IF generate_directions_raises(dp, min_distance)
             THEN /\ epc' = "ZeroDivisionError"
                  /\ UNCHANGED <<points_and_directions, eng_results, eng_index>>
             ELSE /\ points_and_directions' = generate_directions(dp, min_distance)
                  /\ eng_results' =
                        Append(eng_results,
                               single_tool_path(generate_directions(dp, min_distance), tool_z))
                  /\ eng_index' = eng_index + 1
                  /\ UNCHANGED epc
    /\ UNCHANGED <<eng_input_paths, tool_z, min_distance, discretization_step, tool_paths>>
    /\ UNCHANGED <<joinerVars, cuttingVars, kernelVars, angleVars, egcodeVars, cgcodeVars>>

\* generate(): the list is assigned to self.tool_paths
EngravingGenerateReturn ==
    /\ epc = "generating"
    /\ eng_index = Len(eng_input_paths)
    /\ tool_paths' = Some(eng_results)
    /\ epc' = "generated"
    /\ UNCHANGED <<eng_input_paths, tool_z, min_distance, discretization_step, eng_results,
                   eng_index, eng_path, simplified_path, discretized_path,
                   points_and_directions>>
    /\ UNCHANGED <<joinerVars, cuttingVars, kernelVars, angleVars, egcodeVars, cgcodeVars>>

\* paths()
engraving_paths == tool_paths

(***************************************************************************)
(* gcode.py: EngravingGCodeGenerator                                       *)
(*                                                                         *)
(* A tool point is (x, y, z, a) with integer coordinates and an angle in   *)
(* steps of 2 * pi / DirSteps.  The g-code is the sequence of its lines; a *)
(* line is a record of the command and of the optional axis words, and an  *)
(* axis word holds the digits that "{:5.3f}" prints: the value in          *)
(* thousandths, rounded.                                                   *)
(***************************************************************************)
ToolPoints == {<<x, 0, 1, a>> : x \in 0..1, a \in 0..1}
SmallDistances == {1, 2}
SmallAngles == {1, 2}
SafeHeights == {2}
MmPerDegree == {1, 2}

RECURSIVE ToolListsWith(_, _)
\* the lists of exactly k tool paths whose costs add up to at most budget
ToolListsWith(k, budget) ==
    IF k = 0 THEN {<<>>}
    ELSE UNION {{<<c>> \o rest : rest \in ToolListsWith(k - 1, budget - Cost(c))} :
                c \in {q \in SeqsUpTo(ToolPoints, budget) : Cost(q) <= budget}}

ToolPathLists == UNION {ToolListsWith(k, MaxToolPoints) : k \in 0..(MaxPaths - 1)}

\* n / d rounded to the nearest integer, d > 0
Round(n, d) == (2 * n + d) \div (2 * d)

\* "{:5.3f}".format(v)
format_milli(v) == Round(1000 * v, 1)

\* "{:5.3f}".format(self.to_extrusion(angle)): math.degrees(angle) / mm_per_degree
format_extrusion(angle, mm) == Round(1000 * 360 * angle, DirSteps * mm)

\* the line append_to_gcode(command, x, y, z, e) adds; an argument is optional
gcode_line(command, x, y, z, e, mm) ==
    [command |-> command,
     x |-> IF x = None THEN None ELSE Some(format_milli(x[1])),
     y |-> IF y = None THEN None ELSE Some(format_milli(y[1])),
     z |-> IF z = None THEN None ELSE Some(format_milli(z[1])),
     e |-> IF e = None THEN None ELSE Some(format_extrusion(e[1], mm))]

\* [p for p in tool_paths if len(p) != 0]
non_empty_paths(seq) == SelectSeq(seq, LAMBDA q : Len(q) # 0)

abs(v) == IF v < 0 THEN 0 - v ELSE v

\* gcode.distance(point1, point2) squared, on the first three coordinates
squared_distance3(point1, point2) ==
    (point1[1] - point2[1]) * (point1[1] - point2[1])
        + (point1[2] - point2[2]) * (point1[2] - point2[2])
        + (point1[3] - point2[3]) * (point1[3] - point2[3])

points_nearby_le(point1, point2, dist, angle) ==
    /\ squared_distance3(point1, point2) <= dist * dist
    /\ abs(point1[4] - point2[4]) <= angle

\* points_nearby(point1, point2) with small_distance = dist >= 0, small_angle = angle
points_nearby(point1, point2, dist, angle) ==
    /\ squared_distance3(point1, point2) < dist * dist
    /\ abs(point1[4] - point2[4]) < angle

\* EngravingGCodeGenerator(eg_tool_paths, mm_per_degree, safe_z, small_distance, small_angle)
EngravingGCodeGeneratorInit ==
    /\ egpc = "start"
    /\ eg_tool_paths' = non_empty_paths(eg_tool_paths)
    /\ eg_gcode_str' = None
    /\ egpc' = "constructed"
    /\ UNCHANGED <<mm_per_degree, safe_z, small_distance, small_angle, eg_path_index,
                   eg_point_index>>
    /\ UNCHANGED <<joinerVars, cuttingVars, kernelVars, angleVars, engravingVars, cgcodeVars>>

EngravingGCodeGenerate_nosafe ==
    /\ egpc = "constructed"
    /\ IF eg_tool_paths = <<>>
       THEN /\ eg_gcode_str' = None
            /\ egpc' = "generated"
            /\ UNCHANGED eg_path_index
       ELSE /\ eg_gcode_str' =
                  Some(<<gcode_line("M3", None, None, None, None, mm_per_degree),
                         gcode_line("G01 F300", None, None, None, None, mm_per_degree)>>)
            /\ eg_path_index' = 0
            /\ egpc' = "path"
    /\ UNCHANGED <<eg_tool_paths, mm_per_degree, safe_z, small_distance, small_angle,
                   eg_point_index>>
    /\ UNCHANGED <<joinerVars, cuttingVars, kernelVars, angleVars, engravingVars, cgcodeVars>>

\* generate(), up to the loop over the tool paths
EngravingGCodeGenerate ==
    /\ egpc = "constructed"
    /\ IF eg_tool_paths = <<>>
       THEN /\ eg_gcode_str' = None
            /\ egpc' = "generated"
            /\ UNCHANGED eg_path_index
       ELSE /\ eg_gcode_str' =
                  Some(<<gcode_line("M3", None, None, None, None, mm_per_degree),
                         gcode_line("G01 F300", None, None, None, None, mm_per_degree),
                         gcode_line("G00", None, None, Some(safe_z), None, mm_per_degree)>>)
            /\ eg_path_index' = 0
            /\ egpc' = "path"
    /\ UNCHANGED <<eg_tool_paths, mm_per_degree, safe_z, small_distance, small_angle,
                   eg_point_index>>
    /\ UNCHANGED <<joinerVars, cuttingVars, kernelVars, angleVars, engravingVars, cgcodeVars>>

\* generate_single_path(path), up to the loop over path[1:]
EmitPathStart ==
    /\ egpc = "path"
    /\ eg_path_index < Len(eg_tool_paths)
    /\ LET first_point == At(At(eg_tool_paths, eg_path_index), 0)
       IN eg_gcode_str' =
              Some(eg_gcode_str[1]
                   \o <<gcode_line("G00", Some(first_point[1]), Some(first_point[2]), None,
                                   Some(first_point[4]), mm_per_degree),
                        gcode_line("G01", None, None, Some(first_point[3]), None,
                                   mm_per_degree)>>)
    /\ eg_point_index' = 1
    /\ egpc' = "point"
    /\ UNCHANGED <<eg_tool_paths, mm_per_degree, safe_z, small_distance, small_angle,
                   eg_path_index>>
    /\ UNCHANGED <<joinerVars, cuttingVars, kernelVars, angleVars, engravingVars, cgcodeVars>>

\* generate_single_path(path): one iteration of the loop over path[1:]
EmitPoint ==
    /\ egpc = "point"
    /\ eg_point_index < Len(At(eg_tool_paths, eg_path_index))
    /\ LET prev_point == At(At(eg_tool_paths, eg_path_index), eg_point_index - 1)
           point == At(At(eg_tool_paths, eg_path_index), eg_point_index)
       IN eg_gcode_str' =
              Some(eg_gcode_str[1]
                   \o IF points_nearby(prev_point, point, small_distance, small_angle)
                      THEN <<gcode_line("G01", Some(point[1]), Some(point[2]),
                                        Some(point[3]), Some(point[4]), mm_per_degree)>>
                      ELSE <<gcode_line("G01", Some(point[1]), Some(point[2]),
                                        Some(point[3]), None, mm_per_degree),
                             gcode_line("G01", None, None, None, Some(point[4]),
                                        mm_per_degree)>>)
    /\ eg_point_index' = eg_point_index + 1
    /\ UNCHANGED <<eg_tool_paths, mm_per_degree, safe_z, small_distance, small_angle,
                   eg_path_index, egpc>>
    /\ UNCHANGED <<joinerVars, cuttingVars, kernelVars, angleVars, engravingVars, cgcodeVars>>

EmitPathEnd_noretract ==
    /\ egpc = "point"
    /\ eg_point_index = Len(At(eg_tool_paths, eg_path_index))
    /\ eg_path_index' = eg_path_index + 1
    /\ egpc' = "path"
    /\ UNCHANGED <<eg_tool_paths, mm_per_degree, safe_z, small_distance, small_angle,
                   eg_point_index, eg_gcode_str>>
    /\ UNCHANGED <<joinerVars, cuttingVars, kernelVars, angleVars, engravingVars, cgcodeVars>>

\* generate_single_path(path): after the loop
EmitPathEnd ==
    /\ egpc = "point"
    /\ eg_point_index = Len(At(eg_tool_paths, eg_path_index))
    /\ eg_gcode_str' =
          Some(Append(eg_gcode_str[1],
                      gcode_line("G01", None, None, Some(safe_z), None, mm_per_degree)))
    /\ eg_path_index' = eg_path_index + 1
    /\ egpc' = "path"
    /\ UNCHANGED <<eg_tool_paths, mm_per_degree, safe_z, small_distance, small_angle,
                   eg_point_index>>
    /\ UNCHANGED <<joinerVars, cuttingVars, kernelVars, angleVars, engravingVars, cgcodeVars>>

\* generate(): after the loop over the tool paths
EngravingGCodeReturn ==
    /\ egpc = "path"
    /\ eg_path_index = Len(eg_tool_paths)
    /\ eg_gcode_str' =
          Some(eg_gcode_str[1]
               \o <<gcode_line("G00", Some(0), Some(0), None, Some(0), mm_per_degree),
                    gcode_line("G00", None, None, Some(0), None, mm_per_degree),
                    gcode_line("M4", None, None, None, None, mm_per_degree)>>)
    /\ egpc' = "generated"
    /\ UNCHANGED <<eg_tool_paths, mm_per_degree, safe_z, small_distance, small_angle,
                   eg_path_index, eg_point_index>>
    /\ UNCHANGED <<joinerVars, cuttingVars, kernelVars, angleVars, engravingVars, cgcodeVars>>

\* gcode() of the engraving emitter
engraving_gcode == eg_gcode_str

(***************************************************************************)
(* gcode.py: CuttingGCodeGenerator                                         *)
(*                                                                         *)
(* A line of the cutting g-code is the pair of its command and of the      *)
(* digits of its numbers: thousandths for "{:5.3f}", units for "{:d}".     *)
(***************************************************************************)
Speeds == {100}
Temperatures == {0, 33, 100}

\* the divisor of the temperature: it is a percentage
Percent == 100
\* the temperatures of a direct construction: every percentage
Percentages == 0..Percent

\* "G01 X{:5.3f} Y{:5.3f}\n".format(point[0], point[1])
cutting_move(point) == <<"G01", <<format_milli(point[1]), format_milli(point[2])>>>>

cutting_lines_early_off(a_tool_path, a_speed, a_temperature) ==
    <<<<"M3", <<>>>>,
      <<"G92", <<0, 0, 0>>>>,
      <<"M106", <<a_temperature>>>>,
      <<"G4", <<10000>>>>,
      <<"G01 F", <<format_milli(a_speed)>>>>>>
        \o [i \in DOMAIN a_tool_path |-> cutting_move(a_tool_path[i])]
        \o <<<<"M107", <<>>>>, <<"G01", <<0, 0>>>>, <<"M4", <<>>>>>>

\* the g-code generate() builds for a non-empty tool path
cutting_lines(a_tool_path, a_speed, a_temperature) ==
    <<<<"M3", <<>>>>,
      <<"G92", <<0, 0, 0>>>>,
      <<"M106", <<a_temperature>>>>,
      <<"G4", <<10000>>>>,
      <<"G01 F", <<format_milli(a_speed)>>>>>>
        \o [i \in DOMAIN a_tool_path |-> cutting_move(a_tool_path[i])]
        \o <<<<"G01", <<0, 0>>>>, <<"M107", <<>>>>, <<"M4", <<>>>>>>

\* not self.tool_path: None or the empty list
no_tool_path(tp) == tp = None \/ tp[1] = <<>>

cutting_gcode_str_noguard(tp, a_speed, a_temperature) ==
    Some(cutting_lines(IF tp = None THEN <<>> ELSE tp[1], a_speed, a_temperature))

\* the gcode_str generate() assigns
cutting_gcode_str(tp, a_speed, a_temperature) ==
    IF no_tool_path(tp) THEN None
    ELSE Some(cutting_lines(tp[1], a_speed, a_temperature))

CuttingGCodeGeneratorInit_round(tp, a_speed, t) ==
    /\ cgpc = "idle"
    /\ arg_temperature' = t
    /\ cg_tool_path' = tp
    /\ speed' = a_speed
    /\ temperature' = Round(t * 255, Percent)
    /\ cg_gcode_str' = None
    /\ cgpc' = "constructed"

\* CuttingGCodeGenerator(tp, a_speed, t)
CuttingGCodeGeneratorInit(tp, a_speed, t) ==
    /\ cgpc = "idle"
    /\ arg_temperature' = t
    /\ cg_tool_path' = tp
    /\ speed' = a_speed
    /\ temperature' = (t * 255) \div Percent
    /\ cg_gcode_str' = None
    /\ cgpc' = "constructed"

\* foamcutterplugin.py: CuttingGCodeGenerator(tool_path_generator.path(), speed, temperature)
CuttingGCodeFromGenerator ==
    /\ cpc = "generated"
    /\ \E a_speed \in Speeds, t \in Temperatures :
          CuttingGCodeGeneratorInit(tool_path, a_speed, t)
    /\ UNCHANGED <<joinerVars, cuttingVars, kernelVars, angleVars, engravingVars, egcodeVars>>

\* CuttingGCodeGenerator(arg_path, speed, temperature)
CuttingGCodeFromPath ==
    /\ kpc = "cutting_gcode"
    /\ \E a_speed \in Speeds, t \in Percentages :
          CuttingGCodeGeneratorInit(Some(arg_path), a_speed, t)
    /\ UNCHANGED <<joinerVars, cuttingVars, kernelVars, angleVars, engravingVars, egcodeVars>>

\* generate() of the cutting emitter
CuttingGCodeGenerate ==
    /\ cgpc = "constructed"
    /\ cg_gcode_str' = cutting_gcode_str(cg_tool_path, speed, temperature)
    /\ cgpc' = "generated"
    /\ UNCHANGED <<arg_temperature, cg_tool_path, speed, temperature>>
    /\ UNCHANGED <<joinerVars, cuttingVars, kernelVars, angleVars, engravingVars, egcodeVars>>

\* gcode() of the cutting emitter
cutting_gcode == cg_gcode_str

(***************************************************************************)
(* direct calls of the helpers                                             *)
(***************************************************************************)
CallVerifyPathClosed ==
    /\ kpc = "ready"
    /\ ret' = Some(verify_path_closed(arg_path, arg_close))
    /\ kpc' = "verify_path_closed"
    /\ UNCHANGED <<arg_path, arg_close, arg_index, joinerVars, cuttingVars, laterVars>>

CallRotateClosedPath ==
    /\ kpc = "ready"
    /\ ret' = Some(rotate_closed_path(arg_path, arg_index))
    /\ kpc' = "rotate_closed_path"
    /\ UNCHANGED <<arg_path, arg_close, arg_index, joinerVars, cuttingVars, laterVars>>

\* point_path_squared_distance(point, arg_path) for a point of the cell; ret
\* keeps the point with the result: (point, squared distance, index)
CallPointPathSquaredDistance ==
    /\ kpc = "ready"
    /\ IF arg_path = <<>>
       THEN /\ ret' = None
            /\ kpc' = "IndexError"
       ELSE /\ \E point \in Points :
                  LET r == point_path_squared_distance(point, arg_path)
                  IN ret' = Some(<<point, r[1], r[2]>>)
            /\ kpc' = "point_path_squared_distance"
    /\ UNCHANGED <<arg_path, arg_close, arg_index, joinerVars, cuttingVars, laterVars>>

(***************************************************************************)
(* Specifications                                                          *)
(***************************************************************************)
JoinerIdle ==
    /\ input_paths = <<>>
    /\ close_distance = 0
    /\ pc = "idle"
    /\ path = <<>>
    /\ remaining_paths = <<>>
    /\ nearest_path_info = None
    /\ path_index = 0

CuttingIdle ==
    /\ input_path = <<>>
    /\ tool_path = None
    /\ cpc = "none"

KernelIdle ==
    /\ arg_path = <<>>
    /\ arg_close = 0
    /\ arg_index = 0
    /\ ret = None
    /\ kpc = "idle"

AngleIdle ==
    /\ current_turn = 0
    /\ prev_angle = None
    /\ prev_dir = None
    /\ angle_ret = None
    /\ last_cross = None
    /\ run = "new"
    /\ n_calls = 0
    /\ apc = "idle"

EngravingIdle ==
    /\ eng_input_paths = <<>>
    /\ tool_z = 0
    /\ min_distance = 0
    /\ discretization_step = inf
    /\ tool_paths = None
    /\ eng_results = <<>>
    /\ eng_index = 0
    /\ eng_path = <<>>
    /\ simplified_path = <<>>
    /\ discretized_path = <<>>
    /\ points_and_directions = <<>>
    /\ epc = "idle"

EGCodeIdle ==
    /\ eg_tool_paths = <<>>
    /\ mm_per_degree = 1
    /\ safe_z = 0
    /\ small_distance = 0
    /\ small_angle = 0
    /\ eg_gcode_str = None
    /\ eg_path_index = 0
    /\ eg_point_index = 0
    /\ egpc = "idle"

CGCodeIdle ==
    /\ arg_temperature = 0
    /\ cg_tool_path = None
    /\ speed = 0
    /\ temperature = 0
    /\ cg_gcode_str = None
    /\ cgpc = "idle"

LaterIdle ==
    /\ AngleIdle
    /\ EngravingIdle
    /\ EGCodeIdle
    /\ CGCodeIdle

\* the plugin's pipeline: PathsJoiner, unite, CuttingToolPathsGenerator, generate
Init ==
    /\ input_paths \in ContourLists \cup SquareLists \cup {SquareLayout(k) : k \in 1..MaxSquares}
    /\ close_distance \in CloseDistances
    /\ pc = "start"
    /\ path = <<>>
    /\ remaining_paths = <<>>
    /\ nearest_path_info = None
    /\ path_index = 0
    /\ CuttingIdle
    /\ KernelIdle
    /\ LaterIdle

Next ==
    \/ PathsJoinerInit
    \/ Unite
    \/ ExtractNearestPath
    \/ JoinTwoPaths
    \/ CuttingFromUnion
    \/ CuttingGenerate

Spec == Init /\ [][Next]_vars

\* the cutting tool path generator on any path
InitCutting ==
    /\ JoinerIdle
    /\ CuttingIdle
    /\ arg_path \in Paths
    /\ arg_close \in CloseDistances
    /\ arg_index = 0
    /\ ret = None
    /\ kpc = "cutting"
    /\ LaterIdle

NextCutting ==
    \/ CuttingFromPath
    \/ CuttingGenerate

SpecCutting == InitCutting /\ [][NextCutting]_vars

\* the helpers on any path
InitKernel ==
    /\ JoinerIdle
    /\ CuttingIdle
    /\ arg_path \in Paths
    /\ arg_close \in CloseDistances
    /\ arg_index \in 0..MaxPoints
    /\ ret = None
    /\ kpc = "ready"
    /\ LaterIdle

NextKernel ==
    \/ CallVerifyPathClosed
    \/ CallRotateClosedPath
    \/ CallPointPathSquaredDistance

SpecKernel == InitKernel /\ [][NextKernel]_vars

\* a ToolAngleGenerator fed any sequence of directions
InitAngle ==
    /\ JoinerIdle
    /\ CuttingIdle
    /\ KernelIdle
    /\ current_turn = 0
    /\ prev_angle = None
    /\ prev_dir = None
    /\ angle_ret = None
    /\ last_cross = None
    /\ run = "new"
    /\ n_calls = 0
    /\ apc = "start"
    /\ EngravingIdle
    /\ EGCodeIdle
    /\ CGCodeIdle

NextAngleSteps ==
    \/ NewToolAngleGenerator
    \/ NextAngle

SpecAngle == InitAngle /\ [][NextAngleSteps]_vars

\* the engraving tool path generator on lists of paths
InitEngraving ==
    /\ JoinerIdle
    /\ CuttingIdle
    /\ KernelIdle
    /\ AngleIdle
    /\ EGCodeIdle
    /\ CGCodeIdle
    /\ eng_input_paths \in EngravingLists
    /\ tool_z \in ToolHeights
    /\ min_distance \in MinDistances
    /\ discretization_step \in DiscretizationSteps
    /\ tool_paths = None
    /\ eng_results = <<>>
    /\ eng_index = 0
    /\ eng_path = <<>>
    /\ simplified_path = <<>>
    /\ discretized_path = <<>>
    /\ points_and_directions = <<>>
    /\ epc = "start"

NextEngraving ==
    \/ EngravingToolPathsGeneratorInit
    \/ EngravingGenerate
    \/ EngravingGenerateSinglePath
    \/ EngravingGenerateReturn

SpecEngraving == InitEngraving /\ [][NextEngraving]_vars

\* the engraving emitter on lists of tool paths
InitEngravingGCode ==
    /\ JoinerIdle
    /\ CuttingIdle
    /\ KernelIdle
    /\ AngleIdle
    /\ EngravingIdle
    /\ CGCodeIdle
    /\ eg_tool_paths \in ToolPathLists
    /\ mm_per_degree \in MmPerDegree
    /\ safe_z \in SafeHeights
    /\ small_distance \in SmallDistances
    /\ small_angle \in SmallAngles
    /\ eg_gcode_str = None
    /\ eg_path_index = 0
    /\ eg_point_index = 0
    /\ egpc = "start"

NextEngravingGCode ==
    \/ EngravingGCodeGeneratorInit
    \/ EngravingGCodeGenerate
    \/ EmitPathStart
    \/ EmitPoint
    \/ EmitPathEnd
    \/ EngravingGCodeReturn

SpecEngravingGCode == InitEngravingGCode /\ [][NextEngravingGCode]_vars

\* the cutting emitter on any path
InitCuttingGCode ==
    /\ JoinerIdle
    /\ CuttingIdle
    /\ arg_path \in Paths
    /\ arg_close = 0
    /\ arg_index = 0
    /\ ret = None
    /\ kpc = "cutting_gcode"
    /\ LaterIdle

\* the cutting tool path generator followed by the cutting emitter, or the emitter alone
NextCuttingGCode ==
    \/ NextCutting
    \/ CuttingGCodeFromGenerator
    \/ CuttingGCodeFromPath
    \/ CuttingGCodeGenerate

SpecCuttingGCode == (InitCutting \/ InitCuttingGCode) /\ [][NextCuttingGCode]_vars

\* one of the generators or of the emitters, on any of its inputs
InitTools == InitCutting \/ InitCuttingGCode \/ InitEngraving \/ InitEngravingGCode

NextTools ==
    \/ NextCuttingGCode
    \/ NextEngraving
    \/ NextEngravingGCode

SpecTools == InitTools /\ [][NextTools]_vars

(***************************************************************************)
(* Properties                                                              *)
(***************************************************************************)
RECURSIVE SumLen(_)
SumLen(paths) == IF paths = <<>> THEN 0 ELSE Len(paths[1]) + SumLen(Tail(paths))

Range(seq) == {seq[i] : i \in DOMAIN seq}

Count(seq, p) == Cardinality({i \in DOMAIN seq : seq[i] = p})

Last(seq) == seq[Len(seq)]

\* more than one point and first/last farther apart than c (c >= 0)
NotClosed(p, c) == Len(p) > 1 /\ squared_distance(p[1], Last(p)) > c * c

\* the input is K >= 1 disjoint unit squares along the x axis at increasing distance
IsSquareLayout == input_paths # <<>> /\ input_paths = SquareLayout(Len(input_paths))

\* C1 as stated: for K disjoint unit squares laid out along a line at increasing
\* distance, after unite() the length of the union path is the sum of the input
\* lengths plus 2*(K-1).
C1_LengthTwoPerJunction ==
    (pc = "united" /\ IsSquareLayout)
        => Len(union_path) = SumLen(input_paths) + 2 * (Len(input_paths) - 1)

\* C1 amended: for K disjoint unit squares laid out along a line at increasing
\* distance, after unite() the length of the union path is the sum of the input
\* lengths plus K-1 (one duplicated junction point per splice).
C1_LengthOnePerJunction ==
    (pc = "united" /\ IsSquareLayout)
        => Len(union_path) = SumLen(input_paths) + (Len(input_paths) - 1)

C1_Witness == pc = "united" /\ IsSquareLayout /\ Len(input_paths) >= 3

\* C2: for every accepted contour list, after unite() every point of every
\* input contour occurs in the union path.
C2_EveryInputPointInUnion ==
    pc = "united"
        => \A k \in DOMAIN input_paths : Range(input_paths[k]) \subseteq Range(union_path)

\* C3: through unite() the working path keeps the first and the last point of
\* the first input contour, so the union path is closed within close_distance
\* and the cutting tool path generator built from it with the same
\* close_distance accepts it.
C3_WorkingPathStaysClosed ==
    /\ (pc \in {"extract", "join", "united"} /\ input_paths # <<>>
            /\ input_paths[1] # <<>>)
        => /\ path # <<>>
           /\ path[1] = input_paths[1][1]
           /\ Last(path) = Last(input_paths[1])
    /\ pc = "united" => ~NotClosed(union_path, close_distance)
    /\ pc = "united" => cpc # "InvalidCuttingPath"

C3_Witness ==
    /\ pc = "united"
    /\ cpc = "constructed"
    /\ Len(input_paths) >= 2
    /\ Len(path) > Len(input_paths[1])
    /\ path[1] # Last(path)

\* the pending pool as it was before the chosen path was popped
PoolBeforePop ==
    Upto(remaining_paths, path_index) \o <<nearest_path_info[1]>>
        \o From(remaining_paths, path_index)

\* C4: the pair chosen in an iteration of unite() has the globally minimal
\* squared distance between a working-path point and a point of a pending
\* contour; among equal minima the earliest pool index wins, then the earliest
\* working-path index, then the earliest candidate index.
C4_NearestPairChosen ==
    pc = "join" =>
        LET cand == nearest_path_info[1]
            idx1 == nearest_path_info[2]
            idx2 == nearest_path_info[3]
            pool == PoolBeforePop
            d == squared_distance(At(path, idx1), At(cand, idx2))
        IN /\ idx1 \in 0..(Len(path) - 1)
           /\ idx2 \in 0..(Len(cand) - 1)
           /\ \A k \in 0..(Len(pool) - 1) :
              \A i \in 0..(Len(path) - 1) :
              \A j \in 0..(Len(At(pool, k)) - 1) :
                 LET e == squared_distance(At(path, i), At(At(pool, k), j))
                 IN \/ d < e
                    \/ /\ d = e
                       /\ \/ path_index < k
                          \/ /\ path_index = k
                             /\ \/ idx1 < i
                                \/ idx1 = i /\ idx2 <= j

\* a choice among equal minima: a later pending contour and a later
\* working-path point are at the minimal distance too
C4_Witness ==
    /\ pc = "join"
    /\ LET cand == nearest_path_info[1]
           idx1 == nearest_path_info[2]
           idx2 == nearest_path_info[3]
           pool == PoolBeforePop
           d == squared_distance(At(path, idx1), At(cand, idx2))
       IN /\ \E k \in (path_index + 1)..(Len(pool) - 1) :
             \E i \in 0..(Len(path) - 1) :
             \E j \in 0..(Len(At(pool, k)) - 1) :
                squared_distance(At(path, i), At(At(pool, k), j)) = d
          /\ \E i \in (idx1 + 1)..(Len(path) - 1) :
             \E j \in 0..(Len(cand) - 1) :
                squared_distance(At(path, i), At(cand, j)) = d

C6_JoinerConstructorFails ==
    pc # "start" =>
        /\ pc = "InvalidCuttingPath"
              <=> \E k \in DOMAIN input_paths : NotClosed(input_paths[k], close_distance)
        /\ pc = "InvalidCuttingPath"
              => /\ path = <<>>
                 /\ remaining_paths = <<>>
                 /\ nearest_path_info = None
                 /\ cpc = "none"
                 /\ tool_path = None

\* the constructor failed on a contour that is not the first one
C6_Witness ==
    /\ pc = "InvalidCuttingPath"
    /\ Len(input_paths) >= 2
    /\ ~NotClosed(input_paths[1], close_distance)

\* C7: verify_path_closed raises InvalidCuttingPath if and only if the path has
\* more than one point and its first and last point are strictly farther apart
\* than close_distance; it passes for paths of 0 or 1 points, and when the
\* distance equals close_distance.
C7_VerifyPathClosed ==
    kpc = "verify_path_closed" =>
        /\ ret = Some("InvalidCuttingPath") <=> NotClosed(arg_path, arg_close)
        /\ ret \in {Some("InvalidCuttingPath"), Some("ok")}
        /\ Len(arg_path) <= 1 => ret = Some("ok")
        /\ (Len(arg_path) > 1
              /\ squared_distance(arg_path[1], Last(arg_path)) = arg_close * arg_close)
            => ret = Some("ok")

\* the check passed on a path whose ends are apart by exactly close_distance
C7_Witness ==
    /\ kpc = "verify_path_closed"
    /\ Len(arg_path) > 1
    /\ arg_close > 0
    /\ squared_distance(arg_path[1], Last(arg_path)) = arg_close * arg_close
    /\ ret = Some("ok")

\* the argument of rotate_closed_path is a closed path: first and last point equal
ArgClosed == arg_path # <<>> /\ arg_path[1] = Last(arg_path)

\* C8 as stated: rotate_closed_path on a closed path of length L returns the
\* path unchanged for index 0 or L-1; for any other valid index the result has
\* the same length and the same multiset of points as the input.
C8_RotateSameMultiset ==
    (kpc = "rotate_closed_path" /\ ArgClosed) =>
        LET L == Len(arg_path)
            out == ret[1]
        IN /\ arg_index \in {0, L - 1} => out = arg_path
           /\ (0 < arg_index /\ arg_index < L - 1)
                => /\ Len(out) = L
                   /\ \A p \in Points : Count(out, p) = Count(arg_path, p)

\* C8 amended: rotate_closed_path on a closed path of length L returns the path
\* unchanged for index 0 or L-1; for any other valid index the result has the
\* same length, and the same multiset of points as the input once the closing
\* (last) point of each is left out.
C8_RotateSameMultisetOpen ==
    (kpc = "rotate_closed_path" /\ ArgClosed) =>
        LET L == Len(arg_path)
            out == ret[1]
        IN /\ arg_index \in {0, L - 1} => out = arg_path
           /\ (0 < arg_index /\ arg_index < L - 1)
                => /\ Len(out) = L
                   /\ \A p \in Points :
                        Count(Upto(out, L - 1), p) = Count(Upto(arg_path, L - 1), p)

\* a closed path was rotated to an inner index and changed
C8_Witness ==
    /\ kpc = "rotate_closed_path"
    /\ ArgClosed
    /\ 0 < arg_index
    /\ arg_index < Len(arg_path) - 1
    /\ ret[1] # arg_path

\* C9: after generate() on a non-empty accepted path, the tool path is the
\* input path rotated so that its first point is a point of the input path with
\* minimal distance to the origin.
C9_ToolPathStartsNearestOrigin ==
    (cpc = "generated" /\ input_path # <<>>) =>
        /\ tool_path # None
        /\ tool_path[1] # <<>>
        /\ tool_path[1][1] \in Range(input_path)
        /\ \A q \in Range(input_path) :
              squared_distance(<<0, 0>>, tool_path[1][1]) <= squared_distance(<<0, 0>>, q)

\* C10: the CuttingToolPathsGenerator constructor fails with InvalidCuttingPath
\* exactly when the input path has more than one point and is not closed within
\* close_distance, and then no tool path is produced.
C10_CuttingConstructorFails ==
    cpc # "none" =>
        /\ cpc = "InvalidCuttingPath" <=> NotClosed(arg_path, arg_close)
        /\ cpc = "InvalidCuttingPath" => tool_path = None /\ input_path = <<>>
        /\ cpc # "InvalidCuttingPath" => input_path = arg_path

\* the constructor failed on a path of three or more points
C10_Witness ==
    /\ cpc = "InvalidCuttingPath"
    /\ Len(arg_path) >= 3
    /\ tool_path = None

\* C11: a PathsJoiner built from an empty list of contours never fails: the
\* constructor accepts it, unite() returns without raising, and union_path()
\* is the empty path.
C11_EmptyListUnites ==
    pc # "idle" /\ input_paths = <<>> =>
        /\ pc \in {"start", "constructed", "united"}
        /\ pc = "united" => union_path = <<>>

\* unite() has returned on an empty list of contours
C11_Witness == pc = "united" /\ input_paths = <<>> /\ union_path = <<>>

\* C13: while every pair of consecutive directions handed to next_angle is
\* non-zero and turns counter-clockwise by less than a half turn, each
\* returned angle is strictly greater than the one returned before it; while
\* every pair turns clockwise by less than a half turn, each returned angle is
\* strictly smaller.  The number of wraps of the base angle does not matter.
C13_MonotoneAngles ==
    [][/\ n_calls' = n_calls + 1 /\ run' = "ccw" => angle_ret'[1] > angle_ret[1]
       /\ n_calls' = n_calls + 1 /\ run' = "cw" => angle_ret'[1] < angle_ret[1]]_vars

\* a counter-clockwise sequence whose base angle has wrapped twice
C13_Witness ==
    /\ run = "ccw"
    /\ current_turn >= 2
    /\ angle_ret[1] >= 2 * pi

\* C14: a next_angle call whose direction has a zero cross product with the
\* previous direction (the same direction, the reversed one, the zero vector)
\* keeps prev_angle and current_turn and returns the angle returned by the
\* call before it.
C14_ZeroCrossRepeats ==
    [][n_calls' = n_calls + 1 /\ prev_dir # None
          /\ cross_sign(prev_dir[1], prev_dir'[1]) = 0 =>
              /\ prev_angle' = prev_angle
              /\ current_turn' = current_turn
              /\ angle_ret' = angle_ret]_vars

\* the zero vector after a direction whose base angle is not that of (0, 0)
C14_Witness ==
    /\ last_cross = Some(0)
    /\ prev_dir = Some(ZeroVector)
    /\ prev_angle # Some(compute_tool_angle_for_direction(ZeroVector))
    /\ current_turn # 0

\* generate_single_path has been called on eng_path
SinglePathCalled == eng_index > 0 \/ epc = "ZeroDivisionError"

\* the last call of generate_single_path has returned
SinglePathReturned == eng_index > 0 /\ epc # "ZeroDivisionError"

\* C15: the simplified path of a non-empty path ends with the last point of
\* that path.
C15_SimplifiedKeepsLastPoint ==
    SinglePathCalled /\ eng_path # <<>> =>
        /\ simplified_path # <<>>
        /\ Last(simplified_path) = Last(eng_path)

\* ceil(sqrt(d2) / step) for sqrt(d2) > step > 0
CeilRatio(d2, step) ==
    CHOOSE n \in 1..(4 * MaxStepDiv) :
        n * n * step * step >= d2 /\ (n - 1) * (n - 1) * step * step < d2

\* the number of sub-segments the segment from a to b is to become
SubSegments(a, b, step) ==
    IF squared_distance(a, b) > step * step THEN CeilRatio(squared_distance(a, b), step)
    ELSE 1

RECURSIVE Offset(_, _, _)
\* the position in the discretized path of the k-th point of the path P
Offset(P, k, step) ==
    IF k = 1 THEN 1 ELSE Offset(P, k - 1, step) + SubSegments(P[k - 1], P[k], step)

\* C16: with a finite step S, discretize_path keeps the points of its input
\* in order, leaves a segment of length D <= S as it is and cuts a segment of
\* length D > S in exactly ceil(D / S) equal sub-segments (the i-th inserted
\* point lies at i / ceil(D / S) of the segment), none longer than S.
C16_DiscretizedSegments ==
    SinglePathCalled /\ discretization_step # inf =>
        LET P == simplified_path
            Q == discretized_path
            S == discretization_step
        IN IF Len(P) < 2 THEN Q = P
           ELSE /\ Len(Q) = Offset(P, Len(P), S)
                /\ \A k \in 1..(Len(P) - 1) :
                      LET n == SubSegments(P[k], P[k + 1], S)
                          o == Offset(P, k, S)
                      IN /\ n * n * S * S >= squared_distance(P[k], P[k + 1])
                         /\ \A i \in 0..n :
                               /\ n * (Q[o + i][1] - P[k][1]) = i * (P[k + 1][1] - P[k][1])
                               /\ n * (Q[o + i][2] - P[k][2]) = i * (P[k + 1][2] - P[k][2])

\* a path with a segment that is kept and a segment that is cut in sub-segments
\* shorter than the step
C16_Witness ==
    /\ SinglePathReturned
    /\ discretization_step # inf
    /\ Len(discretized_path) > Len(simplified_path)
    /\ \E k \in 1..(Len(simplified_path) - 1) :
          SubSegments(simplified_path[k], simplified_path[k + 1], discretization_step) = 1
    /\ \E k \in 1..(Len(simplified_path) - 1) :
          LET n == SubSegments(simplified_path[k], simplified_path[k + 1],
                               discretization_step)
          IN /\ n > 1
             /\ n * n * discretization_step * discretization_step
                    > squared_distance(simplified_path[k], simplified_path[k + 1])

RECURSIVE TrackerResults(_, _)
\* the angles a tracker in state t returns for the directions dirs
TrackerResults(t, dirs) ==
    IF dirs = <<>> THEN <<>>
    ELSE <<next_angle(t, dirs[1]).result>>
             \o TrackerResults(next_angle(t, dirs[1]).tracker, Tail(dirs))

\* C17: generate_single_path returns one tool point for each point of the
\* simplified and discretized path; a single point has angle 0; otherwise each
\* point but the last has the angle the tracker returns for the direction of
\* its outgoing segment, and the last point has the angle of the one before.
C17_ToolPathShape ==
    /\ epc # "ZeroDivisionError"
    /\ SinglePathReturned =>
          LET tp == At(eng_results, eng_index - 1)
              n == Len(discretized_path)
              angles == TrackerResults(ToolAngleGenerator,
                                       [i \in 1..(n - 1) |->
                                           points_and_directions[i].direction])
          IN /\ Len(tp) = n
             /\ \A i \in 1..n :
                   /\ <<tp[i][1], tp[i][2]>> = discretized_path[i]
                   /\ tp[i][3] = tool_z
             /\ n = 1 => tp[1][4] = 0
             /\ n > 1 => /\ \A i \in 1..(n - 1) : tp[i][4] = angles[i]
                         /\ tp[n][4] = tp[n - 1][4]

\* C18: in generate_single_path every point of the simplified and discretized
\* path but the last gets a non-zero direction and the last gets (0, 0),
\* whatever min_distance and discretization_step are.
C18_UnitDirections ==
    /\ epc # "ZeroDivisionError"
    /\ SinglePathReturned =>
          \A i \in 1..Len(points_and_directions) :
              points_and_directions[i].direction = ZeroVector
                  <=> i = Len(points_and_directions)

\* the G01 line for the point p: the words X, Y, Z when with_xyz, E when with_e
MoveLine(p, with_xyz, with_e) ==
    [command |-> "G01",
     x |-> IF with_xyz THEN Some(1000 * p[1]) ELSE None,
     y |-> IF with_xyz THEN Some(1000 * p[2]) ELSE None,
     z |-> IF with_xyz THEN Some(1000 * p[3]) ELSE None,
     e |-> IF with_e THEN Some(format_extrusion(p[4], mm_per_degree)) ELSE None]

\* the point the engraving emitter is about to emit, and the one before it
EmitCurrent == At(At(eg_tool_paths, eg_path_index), eg_point_index)
EmitPrevious == At(At(eg_tool_paths, eg_path_index), eg_point_index - 1)

\* both the distance and the angle between the two points are below the thresholds
EmitNear ==
    /\ squared_distance3(EmitPrevious, EmitCurrent) < small_distance * small_distance
    /\ abs(EmitCurrent[4] - EmitPrevious[4]) < small_angle

\* the lines the step adds to the g-code
EmittedLines == SubSeq(eg_gcode_str'[1], Len(eg_gcode_str[1]) + 1, Len(eg_gcode_str'[1]))

C20_RotateBeforeMove ==
    [][egpc = "point" /\ eg_point_index' = eg_point_index + 1 /\ ~EmitNear =>
          /\ Len(EmittedLines) = 2
          /\ EmittedLines[1].x = None /\ EmittedLines[1].e # None
          /\ EmittedLines[2].x # None /\ EmittedLines[2].e = None]_vars

\* the engraving generator has generated the tool paths of an empty list
EngravingOnEmpty == epc = "generated" /\ eng_input_paths = <<>>

\* the cutting generator has generated the tool path of an empty path
CuttingOnEmpty == cpc = "generated" /\ input_path = <<>>

\* the engraving emitter has generated the g-code of a list without points
EngravingGCodeOnEmpty == egpc = "generated" /\ eg_tool_paths = <<>>

\* the cutting emitter has generated the g-code of no path or of an empty path
CuttingGCodeOnEmpty == cgpc = "generated" /\ no_tool_path(cg_tool_path)

\* a generator that has raised was not given an empty input (the emitters
\* have no raise)
NoneRaised ==
    /\ cpc = "InvalidCuttingPath" => arg_path # <<>>
    /\ epc = "ZeroDivisionError" => eng_input_paths # <<>>

\* C12: on an empty input the two tool path generators and the two emitters
\* do not raise and the result of each of them is None.
C12_EmptyInputGivesNone ==
    /\ NoneRaised
    /\ EngravingOnEmpty => engraving_paths = None
    /\ CuttingOnEmpty => tool_path = None
    /\ EngravingGCodeOnEmpty => engraving_gcode = None
    /\ CuttingGCodeOnEmpty => cutting_gcode = None

\* C12, amended: on an empty input none of the four classes raises; the result
\* of the cutting tool path generator and of the two emitters is None, the
\* result of the engraving tool path generator is the empty list.
C12_EmptyInputGivesNoneOrEmptyList ==
    /\ NoneRaised
    /\ EngravingOnEmpty => engraving_paths = Some(<<>>)
    /\ CuttingOnEmpty => tool_path = None
    /\ EngravingGCodeOnEmpty => engraving_gcode = None
    /\ CuttingGCodeOnEmpty => cutting_gcode = None

\* the engraving generator has returned the empty list for the empty list
C12_Witness == EngravingOnEmpty /\ engraving_paths = Some(<<>>)

\* a line of the engraving g-code with the given optional words, in thousandths
WordLine(command, x, y, z, e) == [command |-> command, x |-> x, y |-> y, z |-> z, e |-> e]

\* the tool points p and q are nearer than the two thresholds of the emitter
NearPoints(p, q) ==
    /\ squared_distance3(p, q) < small_distance * small_distance
    /\ abs(q[4] - p[4]) < small_angle

RECURSIVE PointMoves(_, _)
\* the G01 lines of the i-th and of the later points of the tool path p, i >= 2
PointMoves(p, i) ==
    IF i > Len(p) THEN <<>>
    ELSE (IF NearPoints(p[i - 1], p[i])
          THEN <<MoveLine(p[i], TRUE, TRUE)>>
          ELSE <<MoveLine(p[i], TRUE, FALSE), MoveLine(p[i], FALSE, TRUE)>>)
         \o PointMoves(p, i + 1)

\* the lines of one non-empty tool path: rapid move to the first point with
\* the rotary axis, plunge, the moves of the other points, retract
PathBlock(p) ==
    <<WordLine("G00", Some(1000 * p[1][1]), Some(1000 * p[1][2]), None,
               Some(format_extrusion(p[1][4], mm_per_degree))),
      WordLine("G01", None, None, Some(1000 * p[1][3]), None)>>
        \o PointMoves(p, 2)
        \o <<WordLine("G01", None, None, Some(1000 * safe_z), None)>>

RECURSIVE PathBlocks(_, _)
\* the lines of the i-th and of the later tool paths of the list, in order;
\* an empty tool path has no line
PathBlocks(list, i) ==
    IF i > Len(list) THEN <<>>
    ELSE (IF list[i] = <<>> THEN <<>> ELSE PathBlock(list[i])) \o PathBlocks(list, i + 1)

\* the whole g-code of a list of tool paths
EngravingProgram(list) ==
    <<WordLine("M3", None, None, None, None),
      WordLine("G01 F300", None, None, None, None),
      WordLine("G00", None, None, Some(1000 * safe_z), None)>>
        \o PathBlocks(list, 1)
        \o <<WordLine("G00", Some(0), Some(0), None, Some(0)),
             WordLine("G00", None, None, Some(0), None),
             WordLine("M4", None, None, None, None)>>

RECURSIVE WithoutEmpty(_)
\* the non-empty tool paths of the list, in order
WithoutEmpty(list) ==
    IF list = <<>> THEN <<>>
    ELSE (IF Head(list) = <<>> THEN <<>> ELSE <<Head(list)>>) \o WithoutEmpty(Tail(list))

RECURSIVE LastZ(_, _)
LastZ(g, n) ==
    IF n = 0 THEN None
    ELSE IF g[n].z # None THEN g[n].z ELSE LastZ(g, n - 1)

\* C28: in the g-code of the engraving emitter, complete or not, every G00
\* line with an X or Y word comes when the last Z word written is safe_z: the
\* tool is retracted before the travel to the first point of a tool path and
\* before the return to the origin.
C28_RapidMovesAtSafeZ ==
    eg_gcode_str # None =>
        \A i \in 1..Len(eg_gcode_str[1]) :
            LET line == eg_gcode_str[1][i]
            IN line.command = "G00" /\ (line.x # None \/ line.y # None) =>
                   LastZ(eg_gcode_str[1], i - 1) = Some(1000 * safe_z)

\* the g-code of two tool paths is complete: the tool has travelled to the
\* second tool path after its plunge into the first, and back to the origin
C28_Witness ==
    /\ egpc = "generated"
    /\ Len(eg_tool_paths) = 2
    /\ eg_gcode_str # None
    /\ Cardinality({i \in 1..Len(eg_gcode_str[1]) :
                       /\ eg_gcode_str[1][i].command = "G00"
                       /\ eg_gcode_str[1][i].x # None}) = 3

\* C22: for a non-empty tool path of n points the g-code of the cutting
\* emitter begins with M3, G92, M106, G4 and the feed rate, goes on with one
\* G01 X Y line per point of the path, in path order, then one G01 X0.000
\* Y0.000, and ends with M107 followed by M4: the heat is switched on before
\* the first move and off after the last.
C22_CuttingCommandOrder ==
    cgpc = "generated" /\ ~no_tool_path(cg_tool_path) =>
        /\ cg_gcode_str # None
        /\ LET g == cg_gcode_str[1]
               p == cg_tool_path[1]
               n == Len(cg_tool_path[1])
           IN /\ Len(g) = n + 8
              /\ <<g[1][1], g[2][1], g[3][1], g[4][1], g[5][1]>>
                     = <<"M3", "G92", "M106", "G4", "G01 F">>
              /\ \A i \in 1..n : g[5 + i] = <<"G01", <<1000 * p[i][1], 1000 * p[i][2]>>>>
              /\ g[n + 6] = <<"G01", <<0, 0>>>>
              /\ g[n + 7][1] = "M107"
              /\ g[n + 8][1] = "M4"

\* the g-code of a tool path of three points has been generated
C22_Witness ==
    /\ cgpc = "generated"
    /\ ~no_tool_path(cg_tool_path)
    /\ Len(cg_tool_path[1]) = 3
    /\ cg_gcode_str # None
    /\ Len(cg_gcode_str[1]) = 11

\* d is the integer part of 255 * t / 100
IsFloorDuty(d, t) == Percent * d <= 255 * t /\ 255 * t < Percent * (d + 1)

\* floor(t * 255 / 100)
FloorDuty(t) == (255 * t - ((255 * t) % Percent)) \div Percent

\* C23: for every integer temperature t in 0..100 the duty the cutting emitter
\* keeps, and writes after M106 S, is floor(t * 255 / 100); it lies in 0..255,
\* does not decrease with t, is 0 for 0 and 255 for 100.
C23_HeatDuty ==
    cgpc # "idle" /\ arg_temperature \in 0..Percent =>
        /\ IsFloorDuty(temperature, arg_temperature)
        /\ temperature \in 0..255
        /\ \A t \in 0..Percent :
               /\ t <= arg_temperature => FloorDuty(t) <= temperature
               /\ t >= arg_temperature => FloorDuty(t) >= temperature
        /\ arg_temperature = 0 => temperature = 0
        /\ arg_temperature = Percent => temperature = 255
        /\ cgpc = "generated" /\ ~no_tool_path(cg_tool_path) =>
               /\ cg_gcode_str # None
               /\ cg_gcode_str[1][3] = <<"M106", <<temperature>>>>

\* the g-code of a non-empty tool path at 33 percent has the duty 84
C23_Witness ==
    /\ cgpc = "generated"
    /\ arg_temperature = 33
    /\ cg_gcode_str # None
    /\ cg_gcode_str[1][3] = <<"M106", <<84>>>>

\* the squared distance between the points a and b
SquaredGap(a, b) == (a[1] - b[1]) * (a[1] - b[1]) + (a[2] - b[2]) * (a[2] - b[2])

\* C24: on a non-empty path point_path_squared_distance returns the smallest
\* squared distance between the point and a point of the path, with the
\* smallest index of a point of the path at that distance.
C24_NearestPointFirstIndex ==
    kpc = "point_path_squared_distance" =>
        LET point == ret[1][1]
            dist == ret[1][2]
            idx == ret[1][3]
        IN /\ idx \in 0..(Len(arg_path) - 1)
           /\ dist = SquaredGap(point, arg_path[idx + 1])
           /\ \A j \in 1..Len(arg_path) : SquaredGap(point, arg_path[j]) >= dist
           /\ \A j \in 1..idx : SquaredGap(point, arg_path[j]) > dist

\* the nearest point is neither the first nor the last, and a later point of
\* the path is as near
C24_Witness ==
    /\ kpc = "point_path_squared_distance"
    /\ ret[1][3] >= 1
    /\ \E j \in (ret[1][3] + 2)..Len(arg_path) :
           SquaredGap(ret[1][1], arg_path[j]) = ret[1][2]

\* the angle of the tool for a direction: the angle of the direction plus a
\* quarter turn, modulo a half turn; atan2 gives the zero vector the angle 0
BaseAngle(direction) ==
    IF direction = ZeroVector THEN half_pi ELSE (direction + half_pi) % pi

\* C25: a next_angle call after the first adds one to current_turn exactly when
\* the cross product of the previous and the new direction is positive and the
\* base angle of the new direction is below prev_angle, takes one away exactly
\* when the cross product is negative and the base angle is above prev_angle,
\* and leaves current_turn alone otherwise; the first call leaves current_turn
\* at 0 and returns the base angle, which lies in [0, pi).
C25_TurnCount ==
    [][n_calls' = n_calls + 1 =>
          IF prev_dir = None
          THEN /\ current_turn = 0
               /\ current_turn' = 0
               /\ angle_ret' = Some(BaseAngle(prev_dir'[1]))
               /\ 0 <= angle_ret'[1] /\ angle_ret'[1] < pi
          ELSE LET cross == cross_sign(prev_dir[1], prev_dir'[1])
                   base_angle == BaseAngle(prev_dir'[1])
                   up == cross > 0 /\ base_angle < prev_angle[1]
                   down == cross < 0 /\ base_angle > prev_angle[1]
               IN /\ current_turn' = current_turn + 1 <=> up
                  /\ current_turn' = current_turn - 1 <=> down
                  /\ current_turn' = current_turn <=> ~up /\ ~down]_vars

\* the second call has turned counter-clockwise across the wrap of the base angle
C25_Witness ==
    /\ n_calls = 2
    /\ last_cross = Some(1)
    /\ current_turn = 1

\* the sign of the integer v
Sign(v) == IF v > 0 THEN 1 ELSE IF v < 0 THEN 0 - 1 ELSE 0

\* the tracker is new, or its previous direction is not the zero vector and
\* its prev_angle is the base angle of that direction: so it is after any
\* sequence of non-zero directions
AfterNonZeroDirections ==
    \/ prev_dir = None
    \/ /\ prev_dir[1] # ZeroVector
       /\ prev_angle = Some(BaseAngle(prev_dir[1]))

\* C29: along a sequence of non-zero directions the angle a next_angle call
\* returns differs from the angle returned by the call before it by less than
\* pi in absolute value, the difference has the sign of the cross product of
\* the two directions, and the returned angle minus pi * current_turn is the
\* base angle of the direction of the call.
C29_Continuity ==
    [][n_calls' = n_calls + 1 /\ prev_dir'[1] # ZeroVector /\ AfterNonZeroDirections =>
          /\ AfterNonZeroDirections'
          /\ angle_ret'[1] - pi * current_turn' = BaseAngle(prev_dir'[1])
          /\ prev_dir # None =>
                /\ abs(angle_ret'[1] - angle_ret[1]) < pi
                /\ Sign(angle_ret'[1] - angle_ret[1])
                       = cross_sign(prev_dir[1], prev_dir'[1])]_vars

\* a clockwise sequence of non-zero directions has wrapped below 0
C29_Witness ==
    /\ run = "cw"
    /\ n_calls >= 3
    /\ current_turn < 0
    /\ AfterNonZeroDirections

RECURSIVE IsSubsequence(_, _)
\* s is t without some of its elements
IsSubsequence(s, t) ==
    IF s = <<>> THEN TRUE
    ELSE IF t = <<>> THEN FALSE
    ELSE IF Head(s) = Head(t) THEN IsSubsequence(Tail(s), Tail(t))
    ELSE IsSubsequence(s, Tail(t))

\* C26: any two consecutive points of the path generate_simplified_path
\* returns are more than min_distance apart, the first point of the input is
\* the first point of the result, and the result is a subsequence of the input.
C26_SimplifiedPath ==
    SinglePathCalled =>
        /\ \A i \in 1..(Len(simplified_path) - 1) :
               SquaredGap(simplified_path[i], simplified_path[i + 1])
                   > min_distance * min_distance
        /\ eng_path # <<>> =>
               simplified_path # <<>> /\ simplified_path[1] = eng_path[1]
        /\ IsSubsequence(simplified_path, eng_path)

\* a point of the input was dropped and two points were kept
C26_Witness ==
    /\ SinglePathCalled
    /\ Len(simplified_path) >= 2
    /\ Len(simplified_path) < Len(eng_path)

\* C27: once the constructor has accepted a list of K contours, contours of 0
\* or 1 points included, unite() does not fail: every iteration takes exactly
\* one contour out of the pending pool, and unite() returns after K - 1
\* splices with the pool empty.
C27_UniteNeverFails ==
    /\ pc # "IndexError"
    /\ pc = "join" => Len(remaining_paths) < Len(input_paths) - 1
    /\ pc = "united" => remaining_paths = <<>>

====
